---- MODULE Spec2Model ----
(***************************************************************************)
(* Model of librustc_target/spec/apple_base.rs: the macOS deployment       *)
(* target (macos_deployment_target, opts, macos_llvm_target) and the SDK   *)
(* root resolution (sysroot for a macOS host and for any other host,       *)
(* sdk_path).                                                              *)
(*                                                                         *)
(* Strings are sequences of pieces (one-character strings, or whole words  *)
(* that are never split); a string is the concatenation of its pieces.     *)
(* A u32 is a pair <<hi, lo>> of 16-bit limbs, value hi * 2^16 + lo.       *)
(***************************************************************************)
EXTENDS Integers, Sequences, FiniteSets, TLC

VARIABLES
    deployment_target,  \* env::var("MACOSX_DEPLOYMENT_TARGET").ok()
    opts_ret,           \* what opts() returned (version read, has_elf_tls)
    llvm_ret,           \* what macos_llvm_target(arch) returned
    host_macos,         \* cfg(target_os = "macos") of the build
    sdkroot,            \* env::var("SDKROOT").ok()
    fs,                 \* the directories that exist, as component lists
    xcrun,              \* what running xcrun does
    sysroot_ret         \* what sysroot(sdk) returned, and whether xcrun ran

vars == <<deployment_target, opts_ret, llvm_ret,
          host_macos, sdkroot, fs, xcrun, sysroot_ret>>

version_vars == <<deployment_target, opts_ret, llvm_ret>>
sysroot_vars == <<host_macos, sdkroot, fs, xcrun, sysroot_ret>>

\* ------------------------------------------------------------------ bounds
MaxVersionLen == 4
MaxPathLen == 3

\* ------------------------------------------------------- Option and Result
None == [some |-> FALSE]
Some(v) == [some |-> TRUE, val |-> v]

Ok(v) == [ok |-> TRUE, val |-> v]
Err(e) == [ok |-> FALSE, err |-> e]

Strings(alphabet, n) == UNION {[1..k -> alphabet] : k \in 0..n}

\* ----------------------------------------------------------------- u32
Limb == 2 ^ 16

U32(n) == <<n \div Limb, n % Limb>>

\* u32::checked_mul(10): None on overflow
CheckedMul10(v) ==
    LET lo10 == v[2] * 10
        hi10 == v[1] * 10 + (lo10 \div Limb)
    IN  IF hi10 >= Limb THEN None ELSE Some(<<hi10, lo10 % Limb>>)

\* u32::checked_add(d) for a digit d: None on overflow
CheckedAdd(v, d) ==
    LET lo2 == v[2] + d
        hi2 == v[1] + (lo2 \div Limb)
    IN  IF hi2 >= Limb THEN None ELSE Some(<<hi2, lo2 % Limb>>)

DecimalDigits == <<"0", "1", "2", "3", "4", "5", "6", "7", "8", "9">>

\* char::to_digit(10): the digit's value, or -1 for None
ToDigit(c) ==
    IF \E i \in 1..10 : DecimalDigits[i] = c
    THEN (CHOOSE i \in 1..10 : DecimalDigits[i] = c) - 1
    ELSE -1

RECURSIVE ParseDigits(_, _, _)
ParseDigits(s, i, acc) ==
    IF i > Len(s) THEN Ok(acc)
    ELSE LET d == ToDigit(s[i])
         IN  IF d = -1 THEN Err("InvalidDigit")
             ELSE LET m == CheckedMul10(acc)
                  IN  IF ~m.some THEN Err("PosOverflow")
                      ELSE LET a == CheckedAdd(m.val, d)
                           IN  IF ~a.some THEN Err("PosOverflow")
                               ELSE ParseDigits(s, i + 1, a.val)

\* str::parse::<u32>(): an optional leading '+', then decimal digits; an
\* empty string, a lone sign, any other character and a value above
\* u32::MAX are errors
ParseU32(s) ==
    IF Len(s) = 0 THEN Err("Empty")
    ELSE IF Len(s) = 1 /\ s[1] \in {"+", "-"} THEN Err("InvalidDigit")
    ELSE IF s[1] = "+" THEN ParseDigits(Tail(s), 1, U32(0))
    ELSE ParseDigits(s, 1, U32(0))

\* variant: split('.') in place of splitn(2, '.'), the second piece ending at
\* the next dot
SplitN2_AllDots(s) ==
    LET dots == {i \in 1..Len(s) : s[i] = "."}
    IN  IF dots = {} THEN None
        ELSE LET i == CHOOSE k \in dots : \A j \in dots : k <= j
                 after == {j \in dots : j > i}
                 e == IF after = {} THEN Len(s)
                      ELSE (CHOOSE k \in after : \A j \in after : k <= j) - 1
             IN  Some(<<SubSeq(s, 1, i - 1), SubSeq(s, i + 1, e)>>)

\* s.splitn(2, '.') followed by i.next().and_then(|a| i.next().map(|b| (a, b))):
\* the text before the first dot and all the text after it, None without a dot
SplitN2(s) ==
    LET dots == {i \in 1..Len(s) : s[i] = "."}
    IN  IF dots = {} THEN None
        ELSE LET i == CHOOSE k \in dots : \A j \in dots : k <= j
             IN  Some(<<SubSeq(s, 1, i - 1), SubSeq(s, i + 1, Len(s))>>)

DefaultVersion == <<U32(10), U32(7)>>

\* variant: the pair built as (b, a)
MacosDeploymentTarget_Swapped(env) ==
    IF ~env.some THEN DefaultVersion
    ELSE LET ab == SplitN2(env.val)
         IN  IF ~ab.some THEN DefaultVersion
             ELSE LET a == ParseU32(ab.val[1])
                      b == ParseU32(ab.val[2])
                  IN  IF a.ok /\ b.ok THEN <<b.val, a.val>> ELSE DefaultVersion

\* macos_deployment_target(), env being MACOSX_DEPLOYMENT_TARGET as read
MacosDeploymentTarget(env) ==
    IF ~env.some THEN DefaultVersion
    ELSE LET ab == SplitN2(env.val)
         IN  IF ~ab.some THEN DefaultVersion
             ELSE LET a == ParseU32(ab.val[1])
                      b == ParseU32(ab.val[2])
                  IN  IF a.ok /\ b.ok THEN <<a.val, b.val>> ELSE DefaultVersion

\* u32 comparison
U32Lt(x, y) == x[1] < y[1] \/ (x[1] = y[1] /\ x[2] < y[2])

\* variant: both components compared, major >= 10 and minor >= 7
TupleGe_Componentwise(v, w) == ~U32Lt(v[1], w[1]) /\ ~U32Lt(v[2], w[2])

\* (u32, u32) >= (u32, u32): Rust orders tuples lexicographically
TupleGe(v, w) ==
    IF v[1] # w[1] THEN U32Lt(w[1], v[1]) ELSE ~U32Lt(v[2], w[2])

\* u32 division by ten: <<quotient, remainder>>
DivMod10(v) ==
    LET t == (v[1] % 10) * Limb + v[2]
    IN  <<(<<v[1] \div 10, t \div 10>>), t % 10>>

RECURSIVE ToDecimal(_)
\* Display for u32: the decimal digits, no sign, no leading zeros
ToDecimal(v) ==
    LET qr == DivMod10(v)
        last == <<DecimalDigits[qr[2] + 1]>>
    IN  IF qr[1] = U32(0) THEN last ELSE ToDecimal(qr[1]) \o last

\* format!("{}-apple-macosx{}.{}.0", arch, major, minor)
FormatTriple(arch, version) ==
    arch \o <<"-apple-macosx">> \o ToDecimal(version[1]) \o <<".">>
         \o ToDecimal(version[2]) \o <<".", "0">>

\* ---------------------------------------------------- version: the inputs
VersionAlphabet == {"0", "1", "6", "7", ".", "+", "x"}

LongVersions == {
    <<"1", "0", ".", "7", ".", "1">>,
    <<"1", "0", ".", "6", ".", "1">>,
    <<"1", "0", ".", "1", "5">>,
    <<"0", "1", "0", ".", "0", "0", "6">>,
    <<"4", "2", "9", "4", "9", "6", "7", "2", "9", "5", ".", "0">>,
    <<"4", "2", "9", "4", "9", "6", "7", "2", "9", "6", ".", "0">>,
    <<"1", "0", ".", "4", "2", "9", "4", "9", "6", "7", "2", "9", "5">>,
    <<"1", "0", ".", "4", "2", "9", "4", "9", "6", "7", "2", "9", "6">>,
    <<"9", "9", "9", "9", "9", "9", "9", "9", "9", "9", "9", ".", "6">> }

VersionInputs ==
    {None} \cup {Some(s) : s \in Strings(VersionAlphabet, MaxVersionLen) \cup LongVersions}

Archs == {<<"x86_64">>, <<"i686">>}

NotCalled == [called |-> FALSE]

\* ---------------------------------------------------- version: the actions
\* opts(): reads the deployment target and sets has_elf_tls
Opts ==
    /\ LET version == MacosDeploymentTarget(deployment_target)
       IN  opts_ret' = [called |-> TRUE,
                        version |-> version,
                        has_elf_tls |-> TupleGe(version, <<U32(10), U32(7)>>)]
    /\ UNCHANGED <<deployment_target, llvm_ret>>
    /\ UNCHANGED sysroot_vars

\* macos_llvm_target(arch)
MacosLlvmTarget(arch) ==
    /\ LET version == MacosDeploymentTarget(deployment_target)
       IN  llvm_ret' = [called |-> TRUE, arch |-> arch,
                        target |-> FormatTriple(arch, version)]
    /\ UNCHANGED <<deployment_target, opts_ret>>
    /\ UNCHANGED sysroot_vars

\* ------------------------------------------------------------------- paths
\* Path::is_absolute() on a Unix host: the path starts with the separator
IsAbsolute(p) == Len(p) > 0 /\ p[1] = "/"

RECURSIVE SplitSlash(_, _, _)
\* the segments of p between separators, empty segments included
SplitSlash(p, i, seg) ==
    IF i > Len(p) THEN <<seg>>
    ELSE IF p[i] = "/" THEN <<seg>> \o SplitSlash(p, i + 1, <<>>)
    ELSE SplitSlash(p, i + 1, Append(seg, p[i]))

RootDir == [kind |-> "RootDir", name |-> <<>>]
CurDir == [kind |-> "CurDir", name |-> <<>>]
ParentDir == [kind |-> "ParentDir", name |-> <<>>]
Normal(seg) == [kind |-> "Normal", name |-> seg]

RECURSIVE SegComponents(_, _, _)
SegComponents(segs, k, relative) ==
    IF k > Len(segs) THEN <<>>
    ELSE LET seg == segs[k]
             here == IF seg = <<>> THEN <<>>
                     ELSE IF seg = <<".">>
                          THEN (IF k = 1 /\ relative THEN <<CurDir>> ELSE <<>>)
                     ELSE IF seg = <<".", ".">> THEN <<ParentDir>>
                     ELSE <<Normal(seg)>>
         IN  here \o SegComponents(segs, k + 1, relative)

\* Path::components(): repeated and trailing separators are dropped, and so
\* is "." anywhere but at the start of a relative path
Components(p) ==
    (IF IsAbsolute(p) THEN <<RootDir>> ELSE <<>>)
        \o SegComponents(SplitSlash(p, 1, <<>>), 1, ~IsAbsolute(p))

\* Path == Path compares the components
PathEq(p, q) == Components(p) = Components(q)

RECURSIVE Walk(_, _, _, _)
Walk(comps, i, cur, files) ==
    IF i > Len(comps) THEN TRUE
    ELSE LET c == comps[i]
             next == IF c.kind = "RootDir" THEN <<>>
                     ELSE IF c.kind = "CurDir" THEN cur
                     ELSE IF c.kind = "ParentDir"
                          THEN (IF cur = <<>> THEN cur ELSE SubSeq(cur, 1, Len(cur) - 1))
                     ELSE Append(cur, c.name)
         IN  next \in files /\ Walk(comps, i + 1, next, files)

\* Path::exists(): the path resolves, component by component, in the
\* filesystem (relative paths from the current directory, here the root);
\* the empty path does not exist
PathExists(p, files) == Len(p) > 0 /\ Walk(Components(p), 1, <<>>, files)

\* str::contains(pat); the patterns searched are whole pieces, and no piece
\* of the path alphabet holds part of another, so matching pieces is exact
Contains(s, pat) ==
    \E i \in 1..(Len(s) - Len(pat) + 1) : SubSeq(s, i, i + Len(pat) - 1) = pat

Whitespace == {" ", "\n", "\t"}

\* str::trim(): leading and trailing whitespace removed
Trim(s) ==
    LET keep == {i \in 1..Len(s) : s[i] \notin Whitespace}
    IN  IF keep = {} THEN <<>>
        ELSE SubSeq(s, CHOOSE i \in keep : \A j \in keep : i <= j,
                       CHOOSE i \in keep : \A j \in keep : i >= j)

\* ----------------------------------------------------------------- sysroot
\* String::from_utf8(bytes)
FromUtf8(bytes) == IF bytes.utf8 THEN Ok(bytes.text) ELSE Err("FromUtf8Error")

Returned(r) == [panic |-> FALSE, ret |-> r]
Panicked == [panic |-> TRUE]

\* sdk_path(sdk_name), tool being what running xcrun does
SdkPath(sdk_name, tool) ==
    IF ~tool.spawn
    THEN Returned(Err(<<"failed to get ", sdk_name, " SDK path: ">> \o tool.cause))
    ELSE IF tool.success
    THEN LET out == FromUtf8(tool.stdout)
         IN  IF ~out.ok THEN Panicked
             ELSE Returned(Ok(Trim(out.val)))
    ELSE LET error == FromUtf8(tool.stderr)
         IN  IF ~error.ok THEN Panicked
             ELSE Returned(Err(<<"failed to get ", sdk_name, " SDK path: ">>
                               \o <<"process exit with error: ">> \o error.val))

\* variant: the iOS kinds do not look for "MacOSX.platform"
WrongPlatform_NoMacMarker(sdk, sdk_root) ==
    \/ /\ sdk = "iphoneos"
       /\ Contains(sdk_root, <<"iPhoneSimulator.platform">>)
    \/ /\ sdk = "iphonesimulator"
       /\ Contains(sdk_root, <<"iPhoneOS.platform">>)
    \/ /\ sdk \in {"macosx", "macosx10.15"}
       /\ \/ Contains(sdk_root, <<"iPhoneOS.platform">>)
          \/ Contains(sdk_root, <<"iPhoneSimulator.platform">>)

\* variant: iphoneos also rejects its own "iPhoneOS.platform"
WrongPlatform_OwnMarker(sdk, sdk_root) ==
    \/ /\ sdk = "iphoneos"
       /\ \/ Contains(sdk_root, <<"iPhoneSimulator.platform">>)
          \/ Contains(sdk_root, <<"iPhoneOS.platform">>)
          \/ Contains(sdk_root, <<"MacOSX.platform">>)
    \/ /\ sdk = "iphonesimulator"
       /\ \/ Contains(sdk_root, <<"iPhoneOS.platform">>)
          \/ Contains(sdk_root, <<"MacOSX.platform">>)
    \/ /\ sdk \in {"macosx", "macosx10.15"}
       /\ \/ Contains(sdk_root, <<"iPhoneOS.platform">>)
          \/ Contains(sdk_root, <<"iPhoneSimulator.platform">>)

\* the guards of the match on sdk: SDKROOT is clearly set for another platform
WrongPlatform(sdk, sdk_root) ==
    \/ /\ sdk = "iphoneos"
       /\ \/ Contains(sdk_root, <<"iPhoneSimulator.platform">>)
          \/ Contains(sdk_root, <<"MacOSX.platform">>)
    \/ /\ sdk = "iphonesimulator"
       /\ \/ Contains(sdk_root, <<"iPhoneOS.platform">>)
          \/ Contains(sdk_root, <<"MacOSX.platform">>)
    \/ /\ sdk \in {"macosx", "macosx10.15"}
       /\ \/ Contains(sdk_root, <<"iPhoneOS.platform">>)
          \/ Contains(sdk_root, <<"iPhoneSimulator.platform">>)

\* what a call of sysroot leaves behind: a panic or the returned value, and
\* whether xcrun was run
Outcome(o, ran) ==
    IF o.panic THEN [called |-> TRUE, panic |-> TRUE, xcrun_ran |-> ran]
    ELSE [called |-> TRUE, panic |-> FALSE, ret |-> o.ret, xcrun_ran |-> ran]

\* variant: sdk_path(sdk)? evaluated before SDKROOT is looked at
SysrootMacosRet_EagerLookup(sdk, env, files, tool) ==
    LET sp == SdkPath(sdk, tool)
    IN  IF sp.panic THEN Outcome(Panicked, TRUE)
        ELSE IF ~sp.ret.ok THEN Outcome(Returned(Err(sp.ret.err)), TRUE)
        ELSE IF ~env.some THEN Outcome(Returned(Ok(None)), TRUE)
        ELSE IF \/ ~IsAbsolute(env.val)
                \/ PathEq(env.val, <<"/">>)
                \/ ~PathExists(env.val, files)
             THEN Outcome(Returned(Ok(Some(sp.ret.val))), TRUE)
        ELSE Outcome(Returned(Ok(Some(
                 IF WrongPlatform(sdk, env.val) THEN sp.ret.val ELSE env.val))), TRUE)

\* variant: no is_absolute / "/" / exists check of SDKROOT
SysrootMacosRet_NoPathCheck(sdk, env, files, tool) ==
    IF ~env.some THEN Outcome(Returned(Ok(None)), FALSE)
    ELSE LET sp == SdkPath(sdk, tool)
         IN  IF sp.panic THEN Outcome(Panicked, TRUE)
             ELSE IF ~sp.ret.ok THEN Outcome(Returned(Err(sp.ret.err)), TRUE)
             ELSE Outcome(Returned(Ok(Some(
                      IF WrongPlatform(sdk, env.val) THEN sp.ret.val ELSE env.val))), TRUE)

\* variant: an invalid SDKROOT gives Ok(None), as on the other hosts
SysrootMacosRet_IgnoreInvalid(sdk, env, files, tool) ==
    IF ~env.some THEN Outcome(Returned(Ok(None)), FALSE)
    ELSE LET sp == SdkPath(sdk, tool)
         IN  IF sp.panic THEN Outcome(Panicked, TRUE)
             ELSE IF ~sp.ret.ok THEN Outcome(Returned(Err(sp.ret.err)), TRUE)
             ELSE IF \/ ~IsAbsolute(env.val)
                     \/ PathEq(env.val, <<"/">>)
                     \/ ~PathExists(env.val, files)
                  THEN Outcome(Returned(Ok(None)), TRUE)
             ELSE Outcome(Returned(Ok(Some(
                      IF WrongPlatform(sdk, env.val) THEN sp.ret.val ELSE env.val))), TRUE)

\* sysroot(sdk) built for a macOS host: env is SDKROOT as read, files the
\* filesystem, tool what running xcrun does
SysrootMacosRet(sdk, env, files, tool) ==
    IF ~env.some THEN Outcome(Returned(Ok(None)), FALSE)
    ELSE LET sp == SdkPath(sdk, tool)
         IN  IF sp.panic THEN Outcome(Panicked, TRUE)
             ELSE IF ~sp.ret.ok THEN Outcome(Returned(Err(sp.ret.err)), TRUE)
             ELSE IF \/ ~IsAbsolute(env.val)
                     \/ PathEq(env.val, <<"/">>)
                     \/ ~PathExists(env.val, files)
                  THEN Outcome(Returned(Ok(Some(sp.ret.val))), TRUE)
             ELSE Outcome(Returned(Ok(Some(
                      IF WrongPlatform(sdk, env.val) THEN sp.ret.val ELSE env.val))), TRUE)

\* variant: no comparison of SDKROOT with "/"
SysrootOtherRet_NoRootCheck(env, files) ==
    IF env.some /\ IsAbsolute(env.val) /\ PathExists(env.val, files)
    THEN Outcome(Returned(Ok(Some(env.val))), FALSE)
    ELSE Outcome(Returned(Ok(None)), FALSE)

\* sysroot(_sdk) built for any other host
SysrootOtherRet(env, files) ==
    IF /\ env.some
       /\ IsAbsolute(env.val)
       /\ ~PathEq(env.val, <<"/">>)
       /\ PathExists(env.val, files)
    THEN Outcome(Returned(Ok(Some(env.val))), FALSE)
    ELSE Outcome(Returned(Ok(None)), FALSE)

\* ---------------------------------------------------- sysroot: the inputs
PlatformMarkers == {"iPhoneOS.platform", "iPhoneSimulator.platform", "MacOSX.platform"}
DirNames == {"sdk"} \cup PlatformMarkers
PathAlphabet == {"/", "."} \cup DirNames

SdkRootInputs == {None} \cup {Some(p) : p \in Strings(PathAlphabet, MaxPathLen)}

Sdks == {"iphoneos", "iphonesimulator", "macosx", "macosx10.15", "appletvos"}

\* the root directory always exists; below it, nothing, one of the
\* directories, or all of them
Dir(n) == <<(<<n>>)>>
FsStates ==
    {{<<>>}} \cup {{<<>>, Dir(n)} : n \in DirNames}
             \cup {{<<>>} \cup {Dir(n) : n \in DirNames}}

Text(t) == [utf8 |-> TRUE, text |-> t]
NotUtf8 == [utf8 |-> FALSE]

ToolOutputs ==
    { Text(<<"/", "sdk", "\n">>),
      Text(<<" ", "/", "iPhoneOS.platform", "\n">>),
      Text(<<"\n">>),
      NotUtf8 }

ToolErrors == { Text(<<"xcrun: error: SDK cannot be located", "\n">>), NotUtf8 }

XcrunStates ==
    {[spawn |-> FALSE, cause |-> <<"No such file or directory (os error 2)">>]}
    \cup {[spawn |-> TRUE, success |-> TRUE, stdout |-> o] : o \in ToolOutputs}
    \cup {[spawn |-> TRUE, success |-> FALSE, stderr |-> e] : e \in ToolErrors}

\* ---------------------------------------------------- sysroot: the actions
SysrootMacos(sdk) ==
    /\ host_macos
    /\ sysroot_ret' = SysrootMacosRet(sdk, sdkroot, fs, xcrun)
                          @@ [sdk |-> sdk]
    /\ UNCHANGED <<host_macos, sdkroot, fs, xcrun>>
    /\ UNCHANGED version_vars

SysrootOther(sdk) ==
    /\ ~host_macos
    /\ sysroot_ret' = SysrootOtherRet(sdkroot, fs) @@ [sdk |-> sdk]
    /\ UNCHANGED <<host_macos, sdkroot, fs, xcrun>>
    /\ UNCHANGED version_vars

\* --------------------------------------------------------- specifications
InitVersion ==
    /\ deployment_target \in VersionInputs
    /\ opts_ret = NotCalled
    /\ llvm_ret = NotCalled
    /\ host_macos = FALSE
    /\ sdkroot = None
    /\ fs = {<<>>}
    /\ xcrun = [spawn |-> FALSE, cause |-> <<"No such file or directory (os error 2)">>]
    /\ sysroot_ret = NotCalled

NextVersion ==
    \/ Opts
    \/ \E arch \in Archs : MacosLlvmTarget(arch)

SpecVersion == InitVersion /\ [][NextVersion]_vars

InitSysroot ==
    /\ deployment_target = None
    /\ opts_ret = NotCalled
    /\ llvm_ret = NotCalled
    /\ host_macos \in BOOLEAN
    /\ sdkroot \in SdkRootInputs
    /\ fs \in FsStates
    /\ xcrun \in XcrunStates
    /\ sysroot_ret = NotCalled

NextSysroot ==
    \/ \E sdk \in Sdks : SysrootMacos(sdk)
    \/ \E sdk \in Sdks : SysrootOther(sdk)

SpecSysroot == InitSysroot /\ [][NextSysroot]_vars

Init == InitVersion \/ InitSysroot
Next == NextVersion \/ NextSysroot
Spec == Init /\ [][Next]_vars

\* ================================================================ claims
\* ------------------------------------------------ deployment target claims
IsDecimalDigit(c) == c \in {"0", "1", "2", "3", "4", "5", "6", "7", "8", "9"}

AllDigits(s) == Len(s) > 0 /\ \A i \in 1..Len(s) : IsDecimalDigit(s[i])

RECURSIVE DotParts(_, _, _)
\* every dot-separated component of s
DotParts(s, i, part) ==
    IF i > Len(s) THEN <<part>>
    ELSE IF s[i] = "." THEN <<part>> \o DotParts(s, i + 1, <<>>)
    ELSE DotParts(s, i + 1, Append(part, s[i]))

RECURSIVE DecimalValue(_, _, _)
\* the number a digit string denotes, as <<hi, lo>> with hi unbounded
DecimalValue(s, i, acc) ==
    IF i > Len(s) THEN acc
    ELSE LET lo == acc[2] * 10 + ToDigit(s[i])
         IN  DecimalValue(s, i + 1, <<acc[1] * 10 + (lo \div Limb), lo % Limb>>)

Value(s) == DecimalValue(s, 1, <<0, 0>>)

FitsU32(n) == n[1] < Limb

\* the variable holds MAJOR.MINOR, both decimal non-negative integers
WellFormed(env) ==
    /\ env.some
    /\ LET parts == DotParts(env.val, 1, <<>>)
       IN  Len(parts) = 2 /\ AllDigits(parts[1]) /\ AllDigits(parts[2])

\* a component that is no number: not a digit string, optionally signed '+'
NonNumeric(part) ==
    ~ \/ AllDigits(part)
      \/ (Len(part) > 1 /\ part[1] = "+" /\ AllDigits(Tail(part)))

\* the variable is unset, or does not hold exactly two numeric components
Malformed(env) ==
    \/ ~env.some
    \/ LET parts == DotParts(env.val, 1, <<>>)
       IN  Len(parts) # 2 \/ NonNumeric(parts[1]) \/ NonNumeric(parts[2])

Major(env) == Value(DotParts(env.val, 1, <<>>)[1])
Minor(env) == Value(DotParts(env.val, 1, <<>>)[2])

\* C7 as stated: for every MACOSX_DEPLOYMENT_TARGET of the form MAJOR.MINOR,
\* whatever the magnitude of the two numbers, macos_deployment_target returns
\* exactly (MAJOR, MINOR).
C7_AnyMagnitudeParsedExactly ==
    (opts_ret.called /\ WellFormed(deployment_target))
        => opts_ret.version = <<Major(deployment_target), Minor(deployment_target)>>

\* C7 amended: for every MACOSX_DEPLOYMENT_TARGET of the form MAJOR.MINOR whose
\* two numbers are at most 2^32 - 1, macos_deployment_target returns exactly
\* (MAJOR, MINOR); with a larger number it returns the default (10, 7).
C7_U32ParsedExactly ==
    (opts_ret.called /\ WellFormed(deployment_target))
        => LET major == Major(deployment_target)
               minor == Minor(deployment_target)
           IN  IF FitsU32(major) /\ FitsU32(minor)
               THEN opts_ret.version = <<major, minor>>
               ELSE opts_ret.version = <<(<<0, 10>>), (<<0, 7>>)>>

C7_Witness ==
    /\ opts_ret.called
    /\ deployment_target =
           Some(<<"4", "2", "9", "4", "9", "6", "7", "2", "9", "5", ".", "0">>)
    /\ opts_ret.version = <<(<<Limb - 1, Limb - 1>>), (<<0, 0>>)>>

\* C8: for every absent or malformed MACOSX_DEPLOYMENT_TARGET (unset, empty,
\* one component, a non-numeric component, three or more components),
\* macos_deployment_target returns the default (10, 7).
C8_MalformedGivesDefault ==
    (opts_ret.called /\ Malformed(deployment_target))
        => opts_ret.version = <<(<<0, 10>>), (<<0, 7>>)>>

C8_Witness ==
    /\ opts_ret.called
    /\ deployment_target = Some(<<"1", "0", ".", "6", ".", "1">>)
    /\ Malformed(deployment_target)
    /\ opts_ret.version = <<(<<0, 10>>), (<<0, 7>>)>>

\* C9: has_elf_tls is true exactly when the resolved version is at least
\* (10, 7) in lexicographic order: false for 10.6 and for any major below 10,
\* true for 10.7 and for any major from 11 on, and true when the variable is
\* absent or malformed.
C9_ElfTlsFromVersion ==
    opts_ret.called =>
        LET major == opts_ret.version[1]
            minor == opts_ret.version[2]
            ten == <<0, 10>>
            seven == <<0, 7>>
        IN  /\ opts_ret.has_elf_tls
                <=> (U32Lt(ten, major) \/ (major = ten /\ ~U32Lt(minor, seven)))
            /\ U32Lt(major, ten) => ~opts_ret.has_elf_tls
            /\ U32Lt(ten, major) => opts_ret.has_elf_tls
            /\ deployment_target = Some(<<"1", "0", ".", "6">>) => ~opts_ret.has_elf_tls
            /\ deployment_target = Some(<<"1", "0", ".", "7">>) => opts_ret.has_elf_tls
            /\ deployment_target = Some(<<"1", "1", ".", "0">>) => opts_ret.has_elf_tls
            /\ deployment_target = Some(<<"7", ".", "7">>) => ~opts_ret.has_elf_tls
            /\ Malformed(deployment_target) => opts_ret.has_elf_tls

C9_Witness ==
    /\ opts_ret.called
    /\ deployment_target = Some(<<"1", "1", ".", "0">>)
    /\ opts_ret.version = <<(<<0, 11>>), (<<0, 0>>)>>
    /\ opts_ret.has_elf_tls

\* ----------------------------------------------------------- sysroot claims
\* the markers of the other platforms, per requested kind
ForeignMarkers(sdk) ==
    CASE sdk = "iphoneos" -> {"iPhoneSimulator.platform", "MacOSX.platform"}
      [] sdk = "iphonesimulator" -> {"iPhoneOS.platform", "MacOSX.platform"}
      [] sdk \in {"macosx", "macosx10.15"} -> {"iPhoneOS.platform", "iPhoneSimulator.platform"}
      [] OTHER -> {}

Contaminated(sdk, root) == \E m \in ForeignMarkers(sdk) : Contains(root, <<m>>)

\* absolute, not the filesystem root, and on disk
ValidPath(p) == IsAbsolute(p) /\ ~PathEq(p, <<"/">>) /\ PathExists(p, fs)

\* the lookup tool succeeds: it runs, exits 0 and its output is text (valid
\* UTF-8), so that there is an actualPath
ToolSucceeds == xcrun.spawn /\ xcrun.success /\ xcrun.stdout.utf8
ToolFails == ~xcrun.spawn \/ ~xcrun.success

ActualPath == Trim(xcrun.stdout.text)

ReturnedOk(v) ==
    /\ sysroot_ret.called
    /\ ~sysroot_ret.panic
    /\ sysroot_ret.ret.ok
    /\ sysroot_ret.ret.val = v

ReturnedErr ==
    sysroot_ret.called /\ ~sysroot_ret.panic /\ ~sysroot_ret.ret.ok

\* C1: on a macOS host, with SDKROOT set and the lookup tool succeeding, an
\* override that contains a marker of another platform than the requested
\* kind is discarded and the tool's path returned, whether or not the
\* override is a valid path.
C1_ContaminatedOverrideSubstituted ==
    (/\ sysroot_ret.called
     /\ host_macos
     /\ sdkroot.some
     /\ ToolSucceeds
     /\ Contaminated(sysroot_ret.sdk, sdkroot.val))
        => ReturnedOk(Some(ActualPath))

C1_Witness ==
    /\ host_macos
    /\ sdkroot = Some(<<"/", "iPhoneSimulator.platform">>)
    /\ ValidPath(sdkroot.val)
    /\ ToolSucceeds
    /\ sysroot_ret.called
    /\ sysroot_ret.sdk = "iphoneos"
    /\ ReturnedOk(Some(<<"/", "sdk">>))

\* C2 as stated: on a macOS host, with SDKROOT set and the lookup tool
\* succeeding, an override without a foreign-platform marker for the requested
\* kind is returned unchanged, with no existence, absoluteness or non-root
\* check applied to it.
C2_CleanOverrideReturnedUnchecked ==
    (/\ sysroot_ret.called
     /\ host_macos
     /\ sdkroot.some
     /\ ToolSucceeds
     /\ ~Contaminated(sysroot_ret.sdk, sdkroot.val))
        => ReturnedOk(Some(sdkroot.val))

\* C2 amended: on a macOS host, with SDKROOT set and the lookup tool
\* succeeding, an override without a foreign-platform marker for the requested
\* kind (every override for a kind outside the table) is returned unchanged
\* when it is an absolute path other than "/" that exists on disk; an override
\* failing that check is replaced by the tool's path.
C2_CleanValidOverrideReturned ==
    (/\ sysroot_ret.called
     /\ host_macos
     /\ sdkroot.some
     /\ ToolSucceeds
     /\ ~Contaminated(sysroot_ret.sdk, sdkroot.val))
        => IF ValidPath(sdkroot.val)
           THEN ReturnedOk(Some(sdkroot.val))
           ELSE ReturnedOk(Some(ActualPath))

C2_Witness ==
    /\ host_macos
    /\ sdkroot = Some(<<"/", "iPhoneOS.platform">>)
    /\ ValidPath(sdkroot.val)
    /\ ToolSucceeds
    /\ ActualPath # sdkroot.val
    /\ sysroot_ret.called
    /\ sysroot_ret.sdk = "iphoneos"
    /\ ReturnedOk(Some(sdkroot.val))

\* C3: on a host that is not macOS, sysroot never fails, and it returns the
\* SDKROOT override unchanged if and only if the override is set, absolute,
\* not the filesystem root and on disk; in every other case it returns None.
C3_OtherHostOverrideIffValid ==
    (sysroot_ret.called /\ ~host_macos)
        => /\ ~sysroot_ret.panic
           /\ sysroot_ret.ret.ok
           /\ ~sysroot_ret.xcrun_ran
           /\ IF sdkroot.some /\ ValidPath(sdkroot.val)
              THEN sysroot_ret.ret.val = Some(sdkroot.val)
              ELSE sysroot_ret.ret.val = None

C3_Witness ==
    /\ ~host_macos
    /\ sdkroot = Some(<<"/", "sdk", "/">>)
    /\ ValidPath(sdkroot.val)
    /\ ReturnedOk(Some(<<"/", "sdk", "/">>))

\* the text of what made the lookup fail
Cause == IF ~xcrun.spawn THEN xcrun.cause ELSE xcrun.stderr.text

\* C4: sysroot returns an error if and only if xcrun is invoked and fails (it
\* cannot be spawned or exits non-zero); xcrun is invoked only on a macOS host
\* with SDKROOT set; the error message holds the requested kind and the cause.
C4_ErrorIffLookupFails ==
    sysroot_ret.called =>
        /\ ReturnedErr <=> (sysroot_ret.xcrun_ran /\ ToolFails)
        /\ sysroot_ret.xcrun_ran => (host_macos /\ sdkroot.some)
        /\ ReturnedErr =>
               /\ Contains(sysroot_ret.ret.err, <<sysroot_ret.sdk>>)
               /\ Contains(sysroot_ret.ret.err, Cause)

\* C5: with SDKROOT absent, on either host and for every requested kind,
\* sysroot returns None and no error, whether the lookup tool would succeed
\* or fail: the tool is not run.
C5_AbsentOverrideIsNone ==
    (sysroot_ret.called /\ ~sdkroot.some)
        => /\ ReturnedOk(None)
           /\ ~sysroot_ret.xcrun_ran

C5_Witness ==
    /\ host_macos
    /\ ~sdkroot.some
    /\ ToolFails
    /\ sysroot_ret.called
    /\ ReturnedOk(None)

\* C6 as stated: every Some(path) that sysroot returns, the override or the
\* tool's output, on either host, is absolute, not "/" and on disk.
C6_EveryReturnedRootIsValid ==
    (/\ sysroot_ret.called
     /\ ~sysroot_ret.panic
     /\ sysroot_ret.ret.ok
     /\ sysroot_ret.ret.val.some)
        => ValidPath(sysroot_ret.ret.val.val)

\* C6 amended: every Some(path) that sysroot returns is either the lookup
\* tool's output, which is returned unchecked (macOS host only), or an
\* override that is absolute, not "/" and on disk.
C6_ReturnedOverrideIsValid ==
    (/\ sysroot_ret.called
     /\ ~sysroot_ret.panic
     /\ sysroot_ret.ret.ok
     /\ sysroot_ret.ret.val.some)
        => \/ /\ host_macos
              /\ ToolSucceeds
              /\ sysroot_ret.ret.val.val = ActualPath
           \/ /\ sdkroot.some
              /\ sysroot_ret.ret.val.val = sdkroot.val
              /\ ValidPath(sdkroot.val)

C6_Witness ==
    /\ host_macos
    /\ sdkroot = Some(<<"/", "MacOSX.platform">>)
    /\ ValidPath(sdkroot.val)
    /\ ToolSucceeds
    /\ ActualPath # sdkroot.val
    /\ sysroot_ret.called
    /\ sysroot_ret.sdk = "macosx"
    /\ ReturnedOk(Some(sdkroot.val))

\* C10: on a macOS host, with SDKROOT set but not absolute, equal to "/" or
\* not on disk, and the lookup tool succeeding, sysroot returns the tool's
\* path for every requested kind, not None.
C10_InvalidOverrideSubstituted ==
    (/\ sysroot_ret.called
     /\ host_macos
     /\ sdkroot.some
     /\ ~ValidPath(sdkroot.val)
     /\ ToolSucceeds)
        => /\ ReturnedOk(Some(ActualPath))
           /\ sysroot_ret.ret.val # None

C10_Witness ==
    /\ host_macos
    /\ sdkroot = Some(<<"/", ".">>)
    /\ ~ValidPath(sdkroot.val)
    /\ ToolSucceeds
    /\ sysroot_ret.called
    /\ sysroot_ret.sdk = "appletvos"
    /\ ReturnedOk(Some(<<"/", "sdk">>))

====
